---- MODULE Spec2Model ----
(***************************************************************************)
(* A model of organix: the watchdog (supervisor) loop, the per-service     *)
(* ServiceManager / ServiceRuntime life cycle, the typed command API of     *)
(* WatchdogQuery and the intercom channels between services.                *)
(*                                                                          *)
(* The aggregate modelled is                                                *)
(*     struct App { ping: ServiceManager<Ping>,                             *)
(*                  heart_beat: ServiceManager<HeartBeat> }                 *)
(* with the service Ping of tests/ping_pong.rs and the service HeartBeat    *)
(* of the crate documentation (src/lib.rs), plus a service type that is     *)
(* not part of the aggregate.                                               *)
(***************************************************************************)
EXTENDS Integers, Sequences, FiniteSets, TLC

\* ------------------------------------------------------------------ bounds
\* number of times one service may be started
MaxStarts == 2
\* number of intercom messages sent over the whole run
MaxMsgs == 2
\* number of Shutdown / Kill commands posted to the watchdog
MaxExits == 1

\* --------------------------------------------------------------- constants
\* capacity of an intercom channel
INTERCOM_CAPACITY == 2
\* capacity of the command queue of the watchdog: mpsc::channel(10)
COMMAND_CAPACITY == 10

\* ------------------------------------------------------- the service types
Types == {"Ping", "HeartBeat", "Unregistered"}

\* <T as Service>::SERVICE_IDENTIFIER
SERVICE_IDENTIFIER(T) ==
    CASE T = "Ping" -> "ping"
      [] T = "HeartBeat" -> "heart-beat"
      [] T = "Unregistered" -> "unregistered"

\* the fields of the aggregate, in declaration order
Fields ==
    << [name |-> "ping", ty |-> "Ping", skip |-> FALSE],
       [name |-> "heart_beat", ty |-> "HeartBeat", skip |-> FALSE] >>

IsSupervised(field) == ~field.skip

\* Struct::fields: the fields that are not skipped
fields == SelectSeq(Fields, IsSupervised)

\* Struct::possible_values: the field names, in declaration order
possible_values == [i \in 1..Len(fields) |-> fields[i].name]

\* the keys of the generated `match service_identifier { ... }`
Managers == {fields[i].name : i \in 1..Len(fields)}

\* the arm of the generated match that a service identifier selects
IsKnown(service_identifier) == service_identifier \in Managers

Statuses == {"Shutdown", "Starting", "Started", "ShuttingDown"}

\* the callers of the typed API of WatchdogQuery
Clients == {"c1"}
\* the Intercom<T> handles
Facades == {"f1", "f2"}

VARIABLES
    status,          \* per manager: the value of the status cell
    started,         \* per manager: ServiceManager::started
    intercom_sender, \* per manager: the channel of ServiceManager::intercom_sender
    intercom_stats,  \* per manager: the channel of ServiceManager::intercom_stats
    nextChan,        \* the next channel intercom::channel() allocates
    control,         \* per manager: the control cell
    receiver,        \* per manager: the channel whose receiver the user task owns (0: none)
    chanQueue,       \* per manager: messages queued towards the live receiver
    task,            \* per manager: the user task
    watcher,         \* per manager: the control task of the activation
    cc,              \* the command queue of the watchdog
    wd,              \* the watchdog loop: "running", "finished" or "panicked"
    finished,        \* number of notifications sent on on_drop_send
    reply,           \* per client and facade: the reply the last step delivered
    exitsPosted,     \* number of Shutdown / Kill commands posted
    facade,          \* per facade: the state of Intercom<T> and of its send
    nextMsg,         \* the next message to send
    accepted,        \* the messages whose send returned Ok, with their target,
                     \* the handle that sent them,
                     \* whether the target had not begun to shut down and
                     \* whether no Shutdown / Kill command was posted yet
    recvLog,         \* per manager: the messages recv returned, in order
    lost,            \* the queued messages dropped with their receiver
    transitions,     \* per manager: number of status changes Shutdown -> Starting
    counters,        \* per manager: the counters of the channel of intercom_stats
    monitor          \* the call of wait_finished: waiting, returned or panicked

vars == << status, started, intercom_sender, intercom_stats, nextChan,
           control, receiver, chanQueue, task, watcher, cc, wd, finished,
           reply, exitsPosted, facade, nextMsg, accepted, recvLog, lost,
           transitions, counters, monitor >>

\* what ServiceManager::runtime writes
runtimeVars == << started, intercom_sender, intercom_stats, nextChan, counters >>
\* what ServiceRuntime::start and the tasks of an activation write
activationVars == << status, transitions, receiver, chanQueue, task, watcher >>
managerVars == << runtimeVars, activationVars, control >>
\* the watchdog loop
watchdogVars == << cc, wd, finished >>
\* the record of the messages
messageVars == << accepted, recvLog, lost >>

\* --------------------------------------------------------------- replies
NoValue == [kind |-> "None"]
Ok == [kind |-> "Ok"]

UnknownService(service_identifier) ==
    [kind |-> "UnknownService",
     service_identifier |-> service_identifier,
     possible_values |-> possible_values]

CannotStartService(service_identifier, source) ==
    [kind |-> "CannotStartService",
     service_identifier |-> service_identifier,
     source |-> source]

CannotStart(st) == [kind |-> "CannotStart", status |-> st]

CannotConnectToService(service_identifier, retry_attempted) ==
    [kind |-> "CannotConnectToService",
     service_identifier |-> service_identifier,
     retry_attempted |-> retry_attempted]

NoReply(context) == [kind |-> "NoReply", context |-> context]

\* the context string of the NoReply error of each query
Context(cmd) ==
    CASE cmd = "Start" -> "start query"
      [] cmd = "Stop" -> "stop query"
      [] cmd = "Status" -> "status query"
      [] cmd = "Intercom" -> "intercom query"

\* ---------------------------------------------------------- control cell
EmptyCell == [cmd |-> "Empty", epoch |-> 0, written |-> {}]

\* send where the latest command always wins
Controller_send_Latest(cell, command, epoch) ==
    [cmd |-> command, epoch |-> epoch,
     written |-> cell.written \cup {command}]

\* Controller::send: Kill supersedes Shutdown, otherwise latest wins.
\* epoch records the activation during which the command was written,
\* written the commands sent since the cell was last read.
Controller_send(cell, command, epoch) ==
    IF cell.cmd = "Kill"
    THEN [cell EXCEPT !.written = @ \cup {command}]
    ELSE [cmd |-> command, epoch |-> epoch,
          written |-> cell.written \cup {command}]

\* the controller (writer side) lives as long as the aggregate
ControllerAlive == wd = "running"

\* ControlReader::updated is ready: a value is available or the writer is gone
ControlReady(m) == control[m].cmd # "Empty" \/ ~ControllerAlive

\* ----------------------------------------------------------- status cell
\* StatusUpdater::update
update(m, new) ==
    /\ status' = [status EXCEPT ![m] = new]
    /\ transitions' = [transitions EXCEPT ![m] =
           IF status[m] = "Shutdown" /\ new = "Starting" THEN @ + 1 ELSE @]

\* Status::is_shutdown
is_shutdown(st) == st = "Shutdown"

\* ------------------------------------------------------- ServiceManager
\* intercom::channel: the counters of a new channel
NewCounters == [number_sent |-> 0, number_received |-> 0]

\* with_runtime keeping the receiver of the first channel in the manager
with_runtime_KeepReceiver(i) ==
    [status |-> "Shutdown",
     intercom_sender |-> i,
     intercom_stats |-> i,
     receiver |-> i,
     counters |-> NewCounters,
     started |-> 0]

\* ServiceManager::with_runtime: the state of the manager of the i-th field.
\* The receiver of the first channel is dropped at once.
with_runtime(i) ==
    [status |-> "Shutdown",
     intercom_sender |-> i,
     intercom_stats |-> i,
     receiver |-> 0,
     counters |-> NewCounters,
     started |-> 0]

InitialManager(m) ==
    with_runtime(CHOOSE i \in 1..Len(fields) : fields[i].name = m)

\* Intercom::new: a handle on service T without a cached sender
Intercom_new(T) ==
    [pc |-> "idle", target |-> T, sender |-> 0, activation |-> 0, msg |-> 0,
     fetches |-> 0, retry_attempted |-> FALSE, stale |-> FALSE]

\* a handle that was not created
NoIntercom == [Intercom_new("Ping") EXCEPT !.pc = "none"]

\* the services the Intercom handles of the model are opened with
FacadeTargets == {"Ping", "HeartBeat"}

\* the handles that exist
Opened == {f \in Facades : facade[f].pc # "none"}

\* the state after WatchdogBuilder::build, with the Intercom handles given
Built(handles) ==
    /\ status = [m \in Managers |-> InitialManager(m).status]
    /\ started = [m \in Managers |-> InitialManager(m).started]
    /\ intercom_sender = [m \in Managers |-> InitialManager(m).intercom_sender]
    /\ intercom_stats = [m \in Managers |-> InitialManager(m).intercom_stats]
    /\ receiver = [m \in Managers |-> InitialManager(m).receiver]
    /\ nextChan = Len(fields) + 1
    /\ control = [m \in Managers |-> EmptyCell]
    /\ chanQueue = [m \in Managers |-> << >>]
    /\ task = [m \in Managers |-> "idle"]
    /\ watcher = [m \in Managers |-> "none"]
    /\ cc = << >>
    /\ wd = "running"
    /\ finished = 0
    /\ reply = [x \in Clients \cup Facades |-> NoValue]
    /\ exitsPosted = 0
    /\ facade = handles
    /\ nextMsg = 1
    /\ accepted = {}
    /\ recvLog = [m \in Managers |-> << >>]
    /\ lost = {}
    /\ transitions = [m \in Managers |-> 0]
    /\ counters = [m \in Managers |-> InitialManager(m).counters]
    /\ monitor = "waiting"

\* one Intercom handle exists
Init ==
    \E T \in FacadeTargets :
        Built([f \in Facades |->
                  IF f = "f1" THEN Intercom_new(T) ELSE NoIntercom])

\* every Intercom handle exists and is a handle on Ping
InitSenders == Built([f \in Facades |-> Intercom_new("Ping")])

\* the sender handles of a channel: the one of its manager and the ones the
\* Intercom handles cache
number_connections(chan) ==
    Cardinality({m \in Managers : intercom_sender[m] = chan})
    + Cardinality({f \in Facades : facade[f].sender = chan})

\* IntercomStats::status: the snapshot of the counters of the channel
IntercomStats_status(m) ==
    [number_sent |-> counters[m].number_sent,
     number_received |-> counters[m].number_received,
     number_connections |-> number_connections(intercom_stats[m])]

\* ServiceManager::status: the StatusReport of the manager
ServiceManager_status(m) ==
    [kind |-> "StatusReport",
     identifier |-> m,
     status |-> status[m],
     intercom |-> IntercomStats_status(m),
     started |-> started[m]]

\* intercom handing out the sender of the channel made by with_runtime
ServiceManager_intercom_First(m) ==
    [kind |-> "Sender", chan |-> InitialManager(m).intercom_sender,
     activation |-> started[m]]

\* ServiceManager::intercom: a clone of the current sender; activation tells
\* during which activation of the service the clone was made
ServiceManager_intercom(m) ==
    [kind |-> "Sender", chan |-> intercom_sender[m], activation |-> started[m]]

\* shutdown writing Kill instead of Shutdown
shutdown_Kills(m) ==
    control' = [control EXCEPT ![m] =
        IF status[m] \in {"Starting", "Started"}
        THEN Controller_send(@, "Kill", started[m])
        ELSE @]

\* a shutdown that sends Shutdown whenever the status is not Shutdown
shutdown_UnlessShutdown(m) ==
    control' = [control EXCEPT ![m] =
        IF status[m] # "Shutdown"
        THEN Controller_send(@, "Shutdown", started[m])
        ELSE @]

\* ServiceManager::shutdown: the command is written only while the service
\* is Starting or Started
shutdown(m) ==
    control' = [control EXCEPT ![m] =
        IF status[m] \in {"Starting", "Started"}
        THEN Controller_send(@, "Shutdown", started[m])
        ELSE @]

\* runtime never refusing a start
runtime_refused_Never(m) == FALSE

\* runtime refusing a start only once the service is Started
runtime_refused_StartedOnly(m) == status[m] = "Started"

\* ServiceManager::runtime, the Err branch
runtime_refused(m) == ~is_shutdown(status[m])

\* runtime without `self.started += 1`
runtime_NoCount(m) ==
    /\ intercom_sender' = [intercom_sender EXCEPT ![m] = nextChan]
    /\ intercom_stats' = [intercom_stats EXCEPT ![m] = nextChan]
    /\ nextChan' = nextChan + 1
    /\ counters' = [counters EXCEPT ![m] = NewCounters]
    /\ started' = started

\* runtime replacing the sender and the statistics on the first start only
runtime_ReplaceOnce(m) ==
    /\ intercom_sender' = [intercom_sender EXCEPT ![m] =
           IF started[m] = 0 THEN nextChan ELSE @]
    /\ intercom_stats' = [intercom_stats EXCEPT ![m] =
           IF started[m] = 0 THEN nextChan ELSE @]
    /\ counters' = [counters EXCEPT ![m] =
           IF started[m] = 0 THEN NewCounters ELSE @]
    /\ nextChan' = nextChan + 1
    /\ started' = [started EXCEPT ![m] = @ + 1]

\* runtime keeping the statistics of the previous channel
runtime_KeepStats(m) ==
    /\ intercom_sender' = [intercom_sender EXCEPT ![m] = nextChan]
    /\ UNCHANGED << intercom_stats, counters >>
    /\ nextChan' = nextChan + 1
    /\ started' = [started EXCEPT ![m] = @ + 1]

\* runtime keeping the sender and the statistics of the previous channel
runtime_KeepSender(m) ==
    /\ UNCHANGED << intercom_sender, intercom_stats, counters >>
    /\ nextChan' = nextChan + 1
    /\ started' = [started EXCEPT ![m] = @ + 1]

\* ServiceManager::runtime, the Ok branch: a new channel replaces the stored
\* sender, the counter of starts is incremented
runtime(m) ==
    /\ intercom_sender' = [intercom_sender EXCEPT ![m] = nextChan]
    /\ intercom_stats' = [intercom_stats EXCEPT ![m] = nextChan]
    /\ counters' = [counters EXCEPT ![m] = NewCounters]
    /\ nextChan' = nextChan + 1
    /\ started' = [started EXCEPT ![m] = @ + 1]

\* start handing the user task the receiver of the channel of the sender
\* that runtime has just replaced
ServiceRuntime_start_OldChannel(m) ==
    /\ update(m, "Starting")
    /\ receiver' = [receiver EXCEPT ![m] = intercom_sender[m]]
    /\ chanQueue' = [chanQueue EXCEPT ![m] = << >>]
    /\ task' = [task EXCEPT ![m] = "running"]
    /\ watcher' = [watcher EXCEPT ![m] = "spawned"]

\* start marking the service Started before its control task has run
ServiceRuntime_start_Started(m) ==
    /\ update(m, "Started")
    /\ receiver' = [receiver EXCEPT ![m] = nextChan]
    /\ chanQueue' = [chanQueue EXCEPT ![m] = << >>]
    /\ task' = [task EXCEPT ![m] = "running"]
    /\ watcher' = [watcher EXCEPT ![m] = "spawned"]

\* start returning before the user task and the control task are spawned
ServiceRuntime_start_Unscheduled(m) ==
    /\ update(m, "Starting")
    /\ receiver' = [receiver EXCEPT ![m] = nextChan]
    /\ chanQueue' = [chanQueue EXCEPT ![m] = << >>]
    /\ UNCHANGED << task, watcher >>

\* ServiceRuntime::start: status Starting, the user task is spawned with the
\* receiver of the new channel, the control task is spawned
ServiceRuntime_start(m) ==
    /\ update(m, "Starting")
    /\ receiver' = [receiver EXCEPT ![m] = nextChan]
    /\ chanQueue' = [chanQueue EXCEPT ![m] = << >>]
    /\ task' = [task EXCEPT ![m] = "running"]
    /\ watcher' = [watcher EXCEPT ![m] = "spawned"]

\* ------------------------------------------------------------- watchdog
HasReply(command) == command.cmd \in {"Start", "Stop", "Status", "Intercom"}

\* no reply is delivered by the step
NoReplies == [x \in Clients \cup Facades |-> NoValue]

\* Reply::reply: the value is sent on the one-shot slot of the command and
\* received by the caller waiting on it
Reply(command, value) == reply' = [NoReplies EXCEPT ![command.from] = value]

\* a start whose manager makes the channel before it reads the status
Organix_start_Allocates(command) ==
    LET id == command.service_identifier IN
    IF IsKnown(id)
    THEN IF runtime_refused(id)
         THEN /\ Reply(command, CannotStartService(id, CannotStart(status[id])))
              /\ nextChan' = nextChan + 1
              /\ UNCHANGED << started, intercom_sender, intercom_stats,
                              counters, activationVars >>
         ELSE /\ runtime(id)
              /\ ServiceRuntime_start(id)
              /\ Reply(command, Ok)
    ELSE /\ Reply(command, UnknownService(id))
         /\ UNCHANGED << runtimeVars, activationVars >>

\* generated Organix::start
Organix_start(command) ==
    LET id == command.service_identifier IN
    IF IsKnown(id)
    THEN IF runtime_refused(id)
         THEN /\ Reply(command, CannotStartService(id, CannotStart(status[id])))
              /\ UNCHANGED << runtimeVars, activationVars >>
         ELSE /\ runtime(id)
              /\ ServiceRuntime_start(id)
              /\ Reply(command, Ok)
    ELSE /\ Reply(command, UnknownService(id))
         /\ UNCHANGED << runtimeVars, activationVars >>

\* generated Organix::stop
Organix_stop(command) ==
    LET id == command.service_identifier IN
    IF IsKnown(id)
    THEN /\ shutdown(id)
         /\ Reply(command, Ok)
    ELSE /\ Reply(command, UnknownService(id))
         /\ UNCHANGED control

\* generated Organix::status
Organix_status(service_identifier) ==
    IF IsKnown(service_identifier)
    THEN ServiceManager_status(service_identifier)
    ELSE UnknownService(service_identifier)

\* generated Organix::intercoms
Organix_intercoms(service_identifier) ==
    IF IsKnown(service_identifier)
    THEN ServiceManager_intercom(service_identifier)
    ELSE UnknownService(service_identifier)

\* Intercom::send, the reply to its Intercom command: the sender is cached
\* and the send goes on, an error is returned to the caller as it is
Intercom_connected(fs, value) ==
    IF value.kind = "Sender"
    THEN [fs EXCEPT !.pc = "send", !.sender = value.chan,
                    !.activation = value.activation]
    ELSE [fs EXCEPT !.pc = "idle"]

\* what the caller of Intercom::send gets when the reply is received
Intercom_result(value) == IF value.kind = "Sender" THEN NoValue ELSE value

\* Watchdog::watchdog, ControlCommand::Start
WatchdogStart ==
    /\ wd = "running" /\ cc # << >> /\ Head(cc).cmd = "Start"
    /\ Organix_start(Head(cc))
    /\ cc' = Tail(cc)
    /\ UNCHANGED << control, wd, finished, exitsPosted, monitor, facade, nextMsg,
                    messageVars >>

\* Watchdog::watchdog, ControlCommand::Stop
WatchdogStop ==
    /\ wd = "running" /\ cc # << >> /\ Head(cc).cmd = "Stop"
    /\ Organix_stop(Head(cc))
    /\ cc' = Tail(cc)
    /\ UNCHANGED << runtimeVars, activationVars, wd, finished, exitsPosted, monitor,
                    facade, nextMsg, messageVars >>

\* Watchdog::watchdog, ControlCommand::Status
WatchdogStatus ==
    /\ wd = "running" /\ cc # << >> /\ Head(cc).cmd = "Status"
    /\ Reply(Head(cc), Organix_status(Head(cc).service_identifier))
    /\ cc' = Tail(cc)
    /\ UNCHANGED << managerVars, wd, finished, exitsPosted, monitor, facade, nextMsg,
                    messageVars >>

\* Watchdog::watchdog, ControlCommand::Intercom
WatchdogIntercom ==
    /\ wd = "running" /\ cc # << >> /\ Head(cc).cmd = "Intercom"
    /\ LET value == Organix_intercoms(Head(cc).service_identifier) IN
          /\ Reply(Head(cc), Intercom_result(value))
          /\ facade' = [facade EXCEPT ![Head(cc).from] = Intercom_connected(@, value)]
    /\ cc' = Tail(cc)
    /\ UNCHANGED << managerVars, wd, finished, exitsPosted, monitor, nextMsg,
                    messageVars >>

\* a drop that sends Shutdown when the watchdog ends on a Shutdown command
ServiceManager_drop_Gently(m) ==
    IF ~is_shutdown(status[m])
    THEN Controller_send(control[m],
                         IF Head(cc).cmd = "Shutdown" THEN "Shutdown" ELSE "Kill",
                         started[m])
    ELSE control[m]

\* a drop that sends Kill whatever the status
ServiceManager_drop_Always(m) == Controller_send(control[m], "Kill", started[m])

\* Drop for ServiceManager: Kill is sent unless the service is Shutdown
ServiceManager_drop(m) ==
    IF ~is_shutdown(status[m])
    THEN Controller_send(control[m], "Kill", started[m])
    ELSE control[m]

\* the commands left in the queue that wait for a reply
Pending(x) == {cc[i] : i \in {j \in 2..Len(cc) : HasReply(cc[j]) /\ cc[j].from = x}}

\* Watchdog::watchdog, ControlCommand::Shutdown | ControlCommand::Kill: the
\* loop ends, the finished notification is sent, the queue and its reply
\* slots are dropped and the aggregate is dropped with the watchdog
WatchdogExit ==
    /\ wd = "running" /\ cc # << >> /\ Head(cc).cmd \in {"Shutdown", "Kill"}
    /\ wd' = "finished"
    /\ finished' = finished + 1
    /\ cc' = << >>
    /\ reply' = [x \in Clients \cup Facades |->
          IF Pending(x) # {}
          THEN NoReply(Context((CHOOSE c \in Pending(x) : TRUE).cmd))
          ELSE NoValue]
    /\ facade' = [f \in Facades |->
          IF facade[f].pc = "await"
          THEN Intercom_connected(facade[f], NoReply(Context("Intercom")))
          ELSE facade[f]]
    /\ control' = [m \in Managers |-> ServiceManager_drop(m)]
    /\ UNCHANGED << runtimeVars, activationVars, exitsPosted, monitor, nextMsg,
                    messageVars >>

\* Watchdog::watchdog, ControlCommand::Start, when T::prepare panics: the
\* sender, the statistics and the counter of starts are replaced and the
\* status is Starting already; the panic unwinds through the watchdog task,
\* which drops the receiver of the new channel, the reply slot of the
\* command, the queue with its reply slots, the aggregate and the sender of
\* the finished notification, which is never sent
WatchdogStartPanics ==
    /\ wd = "running" /\ cc # << >> /\ Head(cc).cmd = "Start"
    /\ LET id == Head(cc).service_identifier IN
          /\ IsKnown(id) /\ ~runtime_refused(id)
          /\ runtime(id)
          /\ update(id, "Starting")
          /\ control' = [m \in Managers |->
                IF m = id \/ ~is_shutdown(status[m])
                THEN Controller_send(control[m], "Kill", started'[m])
                ELSE control[m]]
    /\ wd' = "panicked"
    /\ cc' = << >>
    /\ reply' = [x \in Clients \cup Facades |->
          IF x = Head(cc).from THEN NoReply(Context("Start"))
          ELSE IF Pending(x) # {}
          THEN NoReply(Context((CHOOSE c \in Pending(x) : TRUE).cmd))
          ELSE NoValue]
    /\ facade' = [f \in Facades |->
          IF facade[f].pc = "await"
          THEN Intercom_connected(facade[f], NoReply(Context("Intercom")))
          ELSE facade[f]]
    /\ UNCHANGED << receiver, chanQueue, task, watcher, finished,
                    exitsPosted, monitor, nextMsg, messageVars >>

\* the receiver is dropped with the messages queued in its channel
Dropped(m, cause) ==
    {[msg |-> chanQueue[m][i], cause |-> cause] : i \in 1..Len(chanQueue[m])}

\* WatchdogMonitor::wait_finished: the wait ends when the notification was
\* sent, and with a panic (unwrap) when its sender was dropped unsent; in
\* both cases the runtimes are dropped, and with them the control tasks and
\* the user tasks they still run, each receiver with the messages queued
wait_finished ==
    /\ monitor = "waiting" /\ wd # "running"
    /\ monitor' = IF finished > 0 THEN "returned" ELSE "panicked"
    /\ watcher' = [m \in Managers |-> "none"]
    /\ task' = [m \in Managers |-> "idle"]
    /\ receiver' = [m \in Managers |-> 0]
    /\ chanQueue' = [m \in Managers |-> << >>]
    /\ lost' = lost \cup UNION {Dropped(m, "teardown") : m \in Managers}
    /\ reply' = NoReplies
    /\ UNCHANGED << runtimeVars, status, transitions, control, watchdogVars,
                    exitsPosted, facade, nextMsg, accepted, recvLog >>

\* ------------------------------------------------ WatchdogQuery: commands
Command(cmd, T, from) ==
    [cmd |-> cmd, service_identifier |-> SERVICE_IDENTIFIER(T), from |-> from]

\* number of Start commands waiting in the queue
QueuedStarts ==
    Cardinality({i \in 1..Len(cc) : cc[i].cmd = "Start"})

RECURSIVE Sum(_, _)
Sum(f, S) == IF S = {} THEN 0
             ELSE LET x == CHOOSE y \in S : TRUE IN f[x] + Sum(f, S \ {x})

\* the starts granted and asked for so far, over all managers, are bounded
MayStart == Sum(started, Managers) + QueuedStarts < MaxStarts

\* the caller is not waiting for a reply
Idle(x) == \A i \in 1..Len(cc) : cc[i].from # x \/ ~HasReply(cc[i])

\* WatchdogQuery::send followed by the wait on the reply slot: when the
\* watchdog is gone the command is dropped with its reply slot
Post(command) ==
    IF wd = "running"
    THEN /\ cc' = Append(cc, command)
         /\ reply' = NoReplies
    ELSE /\ reply' = [NoReplies EXCEPT ![command.from] = NoReply(Context(command.cmd))]
         /\ UNCHANGED cc

\* WatchdogQuery::start::<T>
QueryStart(c, T) ==
    /\ Idle(c) /\ Len(cc) < COMMAND_CAPACITY /\ MayStart
    /\ Post(Command("Start", T, c))
    /\ UNCHANGED << managerVars, wd, finished, exitsPosted, monitor, facade, nextMsg,
                    messageVars >>

\* WatchdogQuery::stop::<T>
QueryStop(c, T) ==
    /\ Idle(c) /\ Len(cc) < COMMAND_CAPACITY
    /\ Post(Command("Stop", T, c))
    /\ UNCHANGED << managerVars, wd, finished, exitsPosted, monitor, facade, nextMsg,
                    messageVars >>

\* WatchdogQuery::status::<T>
QueryStatus(c, T) ==
    /\ Idle(c) /\ Len(cc) < COMMAND_CAPACITY
    /\ Post(Command("Status", T, c))
    /\ UNCHANGED << managerVars, wd, finished, exitsPosted, monitor, facade, nextMsg,
                    messageVars >>

\* WatchdogQuery::shutdown and WatchdogQuery::kill: posted without a reply
QueryExit(c, cmd) ==
    /\ Len(cc) < COMMAND_CAPACITY
    /\ exitsPosted < MaxExits
    /\ exitsPosted' = exitsPosted + 1
    /\ cc' = IF wd = "running"
             THEN Append(cc, [cmd |-> cmd, service_identifier |-> "", from |-> c])
             ELSE cc
    /\ reply' = NoReplies
    /\ UNCHANGED << managerVars, wd, finished, monitor, facade, nextMsg,
                    messageVars >>

\* ------------------------------------- ServiceRuntime::start: control task
\* the first poll of the control task
WatcherStarted(m) ==
    /\ watcher[m] = "spawned"
    /\ update(m, "Started")
    /\ watcher' = [watcher EXCEPT ![m] = "loop"]
    /\ reply' = NoReplies
    /\ UNCHANGED << runtimeVars, control, receiver, chanQueue, task,
                    watchdogVars, exitsPosted, monitor, facade, nextMsg, messageVars >>

\* a control task that stays in its loop after the join of the user task
WatcherJoin_NoBreak(m) ==
    /\ watcher[m] = "loop" /\ task[m] = "done"
    /\ update(m, "Shutdown")
    /\ task' = [task EXCEPT ![m] = "idle"]
    /\ reply' = NoReplies
    /\ UNCHANGED << runtimeVars, control, receiver, chanQueue, watcher,
                    watchdogVars, exitsPosted, monitor, facade, nextMsg,
                    messageVars >>

\* select!: the join handle of the user task is ready
WatcherJoin(m) ==
    /\ watcher[m] = "loop" /\ task[m] = "done"
    /\ update(m, "Shutdown")
    /\ watcher' = [watcher EXCEPT ![m] = "none"]
    /\ task' = [task EXCEPT ![m] = "idle"]
    /\ reply' = NoReplies
    /\ UNCHANGED << runtimeVars, control, receiver, chanQueue, watchdogVars,
                    exitsPosted, monitor, facade, nextMsg, messageVars >>

\* the abort handle is never used
abort_Forgotten(t) == t

\* AbortHandle::abort: a running task ends at its next suspension point
abort(t) == IF t = "running" THEN "aborting" ELSE IF t = "done" THEN "idle" ELSE t

\* ControlReader::updated: the value of the cell, None when the cell is
\* empty and its writer is gone
updated(m) == IF control[m].cmd = "Empty" THEN "None" ELSE control[m].cmd

\* a control task that aborts the user task on Shutdown as well
WatcherControl_Aborts(m) ==
    /\ watcher[m] = "loop" /\ ControlReady(m)
    /\ control' = [control EXCEPT ![m] = EmptyCell]
    /\ IF updated(m) = "Shutdown"
       THEN /\ update(m, "ShuttingDown")
            /\ task' = [task EXCEPT ![m] = abort(@)]
            /\ UNCHANGED watcher
       ELSE /\ update(m, "Shutdown")
            /\ task' = [task EXCEPT ![m] = abort(@)]
            /\ watcher' = [watcher EXCEPT ![m] = "none"]
    /\ reply' = NoReplies
    /\ UNCHANGED << runtimeVars, receiver, chanQueue, watchdogVars,
                    exitsPosted, monitor, facade, nextMsg, messageVars >>

\* a control task spawned on the runtime of the service: it is polled only
\* when the user task does not occupy that runtime
WatcherControl_OnServicePool(m) ==
    /\ task[m] # "running"
    /\ watcher[m] = "loop" /\ ControlReady(m)
    /\ control' = [control EXCEPT ![m] = EmptyCell]
    /\ IF updated(m) = "Shutdown"
       THEN /\ update(m, "ShuttingDown")
            /\ UNCHANGED << watcher, task >>
       ELSE /\ update(m, "Shutdown")
            /\ task' = [task EXCEPT ![m] = abort(@)]
            /\ watcher' = [watcher EXCEPT ![m] = "none"]
    /\ reply' = NoReplies
    /\ UNCHANGED << runtimeVars, receiver, chanQueue, watchdogVars,
                    exitsPosted, monitor, facade, nextMsg, messageVars >>

\* a control task that marks the service Shutdown as soon as it reads
\* Shutdown, and leaves the user task to end by itself
WatcherControl_ShutdownAtOnce(m) ==
    /\ watcher[m] = "loop" /\ ControlReady(m)
    /\ control' = [control EXCEPT ![m] = EmptyCell]
    /\ update(m, "Shutdown")
    /\ watcher' = [watcher EXCEPT ![m] = "none"]
    /\ task' = [task EXCEPT ![m] =
          IF updated(m) = "Shutdown" THEN @ ELSE abort(@)]
    /\ reply' = NoReplies
    /\ UNCHANGED << runtimeVars, receiver, chanQueue, watchdogVars,
                    exitsPosted, monitor, facade, nextMsg, messageVars >>

\* select!: control.updated() is ready
WatcherControl(m) ==
    /\ watcher[m] = "loop" /\ ControlReady(m)
    /\ control' = [control EXCEPT ![m] = EmptyCell]
    /\ IF updated(m) = "Shutdown"
       THEN /\ update(m, "ShuttingDown")
            /\ UNCHANGED << watcher, task >>
       ELSE /\ update(m, "Shutdown")
            /\ task' = [task EXCEPT ![m] = abort(@)]
            /\ watcher' = [watcher EXCEPT ![m] = "none"]
    /\ reply' = NoReplies
    /\ UNCHANGED << runtimeVars, receiver, chanQueue, watchdogVars,
                    exitsPosted, monitor, facade, nextMsg, messageVars >>

\* ------------------------------------------------------------ user task
\* the counters after one more message is counted on a channel of manager m:
\* the manager holds the counters of the channel of intercom_stats only
Counted(m, chan, counter) ==
    IF chan = intercom_stats[m]
    THEN [counters EXCEPT ![m][counter] = @ + 1]
    ELSE counters

\* recv returning the newest message of the queue
UserRecv_Newest(m) ==
    /\ task[m] \in {"running", "aborting"} /\ chanQueue[m] # << >>
    /\ recvLog' = [recvLog EXCEPT ![m] =
          Append(@, chanQueue[m][Len(chanQueue[m])])]
    /\ chanQueue' = [chanQueue EXCEPT ![m] = SubSeq(@, 1, Len(@) - 1)]
    /\ counters' = Counted(m, receiver[m], "number_received")
    /\ reply' = NoReplies
    /\ UNCHANGED << started, intercom_sender, intercom_stats, nextChan,
                    status, transitions, receiver, task, watcher,
                    control, watchdogVars, exitsPosted, monitor, facade,
                    nextMsg, accepted, lost >>

\* IntercomReceiver::recv returns a message
UserRecv(m) ==
    /\ task[m] \in {"running", "aborting"} /\ chanQueue[m] # << >>
    /\ recvLog' = [recvLog EXCEPT ![m] = Append(@, Head(chanQueue[m]))]
    /\ chanQueue' = [chanQueue EXCEPT ![m] = Tail(@)]
    /\ counters' = Counted(m, receiver[m], "number_received")
    /\ reply' = NoReplies
    /\ UNCHANGED << started, intercom_sender, intercom_stats, nextChan,
                    status, transitions, receiver, task, watcher,
                    control, watchdogVars, exitsPosted, monitor, facade, nextMsg,
                    accepted, lost >>

\* Service::start returns (or panics): the service value is dropped, and its
\* receiver with it
UserFinish(m) ==
    /\ task[m] = "running"
    /\ task' = [task EXCEPT ![m] = "done"]
    /\ receiver' = [receiver EXCEPT ![m] = 0]
    /\ chanQueue' = [chanQueue EXCEPT ![m] = << >>]
    /\ lost' = lost \cup Dropped(m, "finish")
    /\ reply' = NoReplies
    /\ UNCHANGED << runtimeVars, status, transitions, watcher, control,
                    watchdogVars, exitsPosted, monitor, facade, nextMsg, accepted,
                    recvLog >>

\* an aborted task that is polled again after its suspension point
UserAborted_Resumes(m) ==
    /\ task[m] = "aborting"
    /\ task' = [task EXCEPT ![m] = "running"]
    /\ reply' = NoReplies
    /\ UNCHANGED << runtimeVars, status, transitions, watcher, control,
                    receiver, chanQueue, watchdogVars, exitsPosted, monitor,
                    facade, nextMsg, messageVars >>

\* the abort takes effect: the task is dropped at a suspension point
UserAborted(m) ==
    /\ task[m] = "aborting"
    /\ task' = [task EXCEPT ![m] = "idle"]
    /\ receiver' = [receiver EXCEPT ![m] = 0]
    /\ chanQueue' = [chanQueue EXCEPT ![m] = << >>]
    /\ lost' = lost \cup Dropped(m, "abort")
    /\ reply' = NoReplies
    /\ UNCHANGED << runtimeVars, status, transitions, watcher, control,
                    watchdogVars, exitsPosted, monitor, facade, nextMsg, accepted,
                    recvLog >>

\* ------------------------------------------------------------- Intercom<T>
\* the manager whose user task owns the receiver of a channel
Connected(chan) == {m \in Managers : receiver[m] = chan /\ chan # 0}

\* the target of a handle was started again since the handle cached its sender
Stale(fs) ==
    /\ fs.sender # 0
    /\ \E m \in Managers :
          m = SERVICE_IDENTIFIER(fs.target) /\ fs.activation < started[m]

\* Intercom::send, the Intercom command is posted; when the watchdog is gone
\* the error is returned to the caller
IntercomPost(f, fs) ==
    /\ Len(cc) < COMMAND_CAPACITY
    /\ Post(Command("Intercom", fs.target, f))
    /\ facade' = [facade EXCEPT ![f] =
          [fs EXCEPT !.pc = IF wd = "running" THEN "await" ELSE "idle",
                     !.fetches = @ + 1]]

\* Intercom::send is called with a new message: without a cached sender the
\* current sender of the target is asked for
IntercomSend(f) ==
    /\ facade[f].pc = "idle" /\ nextMsg <= MaxMsgs * Cardinality(Opened)
    /\ nextMsg' = nextMsg + 1
    /\ LET fs == [facade[f] EXCEPT !.msg = nextMsg, !.fetches = 0,
                                   !.retry_attempted = FALSE,
                                   !.stale = Stale(facade[f])] IN
          IF fs.sender = 0
          THEN IntercomPost(f, fs)
          ELSE /\ facade' = [facade EXCEPT ![f] = [fs EXCEPT !.pc = "send"]]
               /\ reply' = NoReplies
               /\ UNCHANGED cc
    /\ UNCHANGED << managerVars, wd, finished, exitsPosted, monitor, messageVars >>

\* IntercomSender::send on a connected channel: the message is queued
IntercomDeliver(f) ==
    /\ facade[f].pc = "send"
    /\ \E m \in Connected(facade[f].sender) :
          /\ Len(chanQueue[m]) < INTERCOM_CAPACITY
          /\ chanQueue' = [chanQueue EXCEPT ![m] = Append(@, facade[f].msg)]
          /\ accepted' = accepted \cup
                {[msg |-> facade[f].msg, to |-> m, from |-> f,
                  early |-> status[m] \in {"Starting", "Started"},
                  before |-> exitsPosted = 0]}
          /\ counters' = Counted(m, facade[f].sender, "number_sent")
    /\ facade' = [facade EXCEPT ![f] = [@ EXCEPT !.pc = "idle"]]
    /\ reply' = [NoReplies EXCEPT ![f] = Ok]
    /\ UNCHANGED << started, intercom_sender, intercom_stats, nextChan,
                    status, transitions, receiver, task, watcher,
                    control, watchdogVars, exitsPosted, monitor, nextMsg, recvLog, lost >>

\* IntercomSender::send reports Disconnected on a sender this send fetched:
\* the error is returned
IntercomFail(f) ==
    /\ facade[f].pc = "send" /\ facade[f].fetches > 0
    /\ Connected(facade[f].sender) = {}
    /\ facade' = [facade EXCEPT ![f] =
          [@ EXCEPT !.pc = "idle", !.sender = 0, !.activation = 0]]
    /\ reply' = [NoReplies EXCEPT ![f] =
          CannotConnectToService(SERVICE_IDENTIFIER(facade[f].target),
                                 facade[f].retry_attempted)]
    /\ UNCHANGED << managerVars, watchdogVars, exitsPosted, monitor, nextMsg,
                    messageVars >>

\* IntercomSender::send reports Disconnected on a cached sender: the sender
\* is fetched again, once
IntercomRetry(f) ==
    /\ facade[f].pc = "send" /\ facade[f].fetches = 0
    /\ Connected(facade[f].sender) = {}
    /\ IntercomPost(f, [facade[f] EXCEPT !.sender = 0, !.activation = 0,
                                         !.retry_attempted = TRUE])
    /\ UNCHANGED << managerVars, wd, finished, exitsPosted, monitor, nextMsg,
                    messageVars >>

\* ------------------------------------------------------------------ system
Next ==
    \/ WatchdogStart
    \/ WatchdogStop
    \/ WatchdogStatus
    \/ WatchdogIntercom
    \/ WatchdogExit
    \/ WatchdogStartPanics
    \/ wait_finished
    \/ \E c \in Clients, T \in Types : QueryStart(c, T)
    \/ \E c \in Clients, T \in Types : QueryStop(c, T)
    \/ \E c \in Clients, T \in Types : QueryStatus(c, T)
    \/ \E c \in Clients, cmd \in {"Shutdown", "Kill"} : QueryExit(c, cmd)
    \/ \E m \in Managers : WatcherStarted(m)
    \/ \E m \in Managers : WatcherJoin(m)
    \/ \E m \in Managers : WatcherControl(m)
    \/ \E m \in Managers : UserRecv(m)
    \/ \E m \in Managers : UserFinish(m)
    \/ \E m \in Managers : UserAborted(m)
    \/ \E f \in Facades : IntercomSend(f)
    \/ \E f \in Facades : IntercomDeliver(f)
    \/ \E f \in Facades : IntercomFail(f)
    \/ \E f \in Facades : IntercomRetry(f)

Spec == Init /\ [][Next]_vars

\* the tasks the runtimes schedule make progress; the callers of the API and
\* the end of a user task are not forced
Fairness ==
    /\ WF_vars(WatchdogStart) /\ WF_vars(WatchdogStop)
    /\ WF_vars(WatchdogStatus) /\ WF_vars(WatchdogIntercom)
    /\ WF_vars(WatchdogExit)
    /\ \A m \in Managers :
          /\ WF_vars(WatcherStarted(m)) /\ WF_vars(WatcherJoin(m))
          /\ WF_vars(WatcherControl(m))
          /\ WF_vars(UserRecv(m)) /\ WF_vars(UserAborted(m))
    /\ \A f \in Facades :
          /\ WF_vars(IntercomDeliver(f)) /\ WF_vars(IntercomFail(f))
          /\ WF_vars(IntercomRetry(f))

FairSpec == Spec /\ Fairness

\* IntercomReceiver::recv returns None: the queue is empty and no sender of
\* the channel is left, neither the one of the manager, which lives as long
\* as the aggregate, nor one cached by an Intercom handle
recv_None(m) ==
    /\ receiver[m] # 0 /\ chanQueue[m] = << >>
    /\ ~(ControllerAlive /\ intercom_sender[m] = receiver[m])
    /\ \A f \in Facades : facade[f].sender # receiver[m]

\* Service::start of a service that loops on recv until None: the loop ends,
\* start returns and the service value is dropped with its receiver
UserLoopEnds(m) ==
    /\ recv_None(m)
    /\ UserFinish(m)

\* the system with services whose start is `while let Some(msg) = recv()`
NextLoop ==
    \/ WatchdogStart
    \/ WatchdogStop
    \/ WatchdogStatus
    \/ WatchdogIntercom
    \/ WatchdogExit
    \/ WatchdogStartPanics
    \/ wait_finished
    \/ \E c \in Clients, T \in Types : QueryStart(c, T)
    \/ \E c \in Clients, T \in Types : QueryStop(c, T)
    \/ \E c \in Clients, T \in Types : QueryStatus(c, T)
    \/ \E c \in Clients, cmd \in {"Shutdown", "Kill"} : QueryExit(c, cmd)
    \/ \E m \in Managers : WatcherStarted(m)
    \/ \E m \in Managers : WatcherJoin(m)
    \/ \E m \in Managers : WatcherControl(m)
    \/ \E m \in Managers : UserRecv(m)
    \/ \E m \in Managers : UserLoopEnds(m)
    \/ \E m \in Managers : UserAborted(m)
    \/ \E f \in Facades : IntercomSend(f)
    \/ \E f \in Facades : IntercomDeliver(f)
    \/ \E f \in Facades : IntercomFail(f)
    \/ \E f \in Facades : IntercomRetry(f)

LoopSpec == Init /\ [][NextLoop]_vars

\* the tasks of the watchdog runtime make progress: the watchdog loop and
\* the control tasks, which ServiceRuntime::start spawns there; nothing is
\* assumed of the user tasks, which run on the runtimes of their services
WatchdogFairness ==
    /\ WF_vars(WatchdogStart) /\ WF_vars(WatchdogStop)
    /\ WF_vars(WatchdogStatus) /\ WF_vars(WatchdogIntercom)
    /\ WF_vars(WatchdogExit)
    /\ \A m \in Managers :
          /\ WF_vars(WatcherStarted(m)) /\ WF_vars(WatcherJoin(m))
          /\ WF_vars(WatcherControl(m))

PoolSpec == Spec /\ WatchdogFairness

\* the steps of the system in which Ping is started, runs to its end and is
\* sent messages, and no command other than Start and Intercom is posted
NextSenders ==
    \/ \E c \in Clients : QueryStart(c, "Ping")
    \/ WatchdogStart
    \/ WatchdogIntercom
    \/ \E m \in Managers : WatcherStarted(m)
    \/ \E m \in Managers : WatcherJoin(m)
    \/ \E m \in Managers : UserRecv(m)
    \/ \E m \in Managers : UserFinish(m)
    \/ \E f \in Facades : IntercomSend(f)
    \/ \E f \in Facades : IntercomDeliver(f)
    \/ \E f \in Facades : IntercomFail(f)
    \/ \E f \in Facades : IntercomRetry(f)

\* the system with several senders to one service
SendersSpec == InitSenders /\ [][NextSenders]_vars

\* a command is sent to the control cell of a service
CellSend ==
    \E m \in Managers, command \in {"Shutdown", "Kill"}, epoch \in 0..MaxStarts :
        /\ control' = [control EXCEPT ![m] = Controller_send(@, command, epoch)]
        /\ reply' = NoReplies
        /\ UNCHANGED << runtimeVars, activationVars, watchdogVars, exitsPosted,
                        monitor, facade, nextMsg, messageVars >>

\* the reader of a control cell takes the value of the cell
CellUpdated ==
    \E m \in Managers :
        /\ updated(m) # "None"
        /\ control' = [control EXCEPT ![m] = EmptyCell]
        /\ reply' = NoReplies
        /\ UNCHANGED << runtimeVars, activationVars, watchdogVars, exitsPosted,
                        monitor, facade, nextMsg, messageVars >>

\* the control cells alone, under every sequence of commands sent and read
CellSpec == Init /\ [][CellSend \/ CellUpdated]_vars

\* ------------------------------------------------------------ properties

\* C1: when the watchdog handles Start for a service whose status is not
\* Shutdown, the reply is CannotStartService carrying CannotStart with the
\* status read at that moment, and the status and the counter of starts of
\* the service are left as they were.
C1_StartRefusal ==
    [][\A m \in Managers :
          ( /\ wd = "running" /\ cc # << >> /\ cc' = Tail(cc)
            /\ Head(cc).cmd = "Start" /\ Head(cc).service_identifier = m
            /\ status[m] # "Shutdown" )
          => /\ reply'[Head(cc).from] =
                   CannotStartService(m, CannotStart(status[m]))
             /\ status'[m] = status[m]
             /\ started'[m] = started[m]]_vars

\* a start was refused with the status the service has
C1_Refused ==
    \E c \in Clients :
        /\ reply[c].kind = "CannotStartService"
        /\ reply[c].source = CannotStart(status[reply[c].service_identifier])

\* C2: the counter of starts is 0 after construction, never decreases, always
\* equals the number of status changes Shutdown -> Starting, which in the
\* steps the watchdog loop survives are exactly the steps that reply Ok to a
\* Start, and is the value a StatusReport carries.
C2_RestartCount ==
    /\ \A m \in Managers : started[m] = 0
    /\ [](\A m \in Managers : started[m] = transitions[m])
    /\ [](\A c \in Clients :
             reply[c].kind = "StatusReport"
             => reply[c].started = transitions[reply[c].identifier])
    /\ [][\A m \in Managers :
             /\ started'[m] >= started[m]
             /\ transitions'[m] \in {transitions[m], transitions[m] + 1}
             /\ wd' = "running"
                => ( (transitions'[m] = transitions[m] + 1)
                     <=> ( /\ wd = "running" /\ cc # << >> /\ cc' = Tail(cc)
                           /\ Head(cc).cmd = "Start"
                           /\ Head(cc).service_identifier = m
                           /\ reply'[Head(cc).from] = Ok ) )]_vars

\* a StatusReport of a service that was started again
C2_Restarted ==
    \E c \in Clients :
        /\ reply[c].kind = "StatusReport"
        /\ reply[c].started >= 2
        /\ reply[c].started = transitions[reply[c].identifier]

\* C3: while the user task of a service is live, the sender and the
\* statistics stored in its manager are those of the channel whose receiver
\* the task owns; a step of the running watchdog that replaces the sender,
\* the statistics or the receiver replaces the three together.
C3_SenderMatchesReceiver ==
    /\ [](\A m \in Managers :
             task[m] \in {"running", "aborting"}
             => /\ receiver[m] # 0
                /\ intercom_sender[m] = receiver[m]
                /\ intercom_stats[m] = receiver[m])
    /\ [][\A m \in Managers :
             ( /\ wd' = "running"
               /\ \/ intercom_sender'[m] # intercom_sender[m]
                  \/ intercom_stats'[m] # intercom_stats[m]
                  \/ (receiver'[m] # receiver[m] /\ receiver'[m] # 0) )
             => /\ intercom_sender'[m] = receiver'[m]
                /\ intercom_stats'[m] = receiver'[m]
                /\ task'[m] = "running"]_vars

\* a service started again, running on its second channel
C3_RunningAfterRestart ==
    \E m \in Managers :
        /\ task[m] = "running" /\ started[m] >= 2
        /\ intercom_sender[m] = receiver[m]
        /\ intercom_sender[m] # InitialManager(m).intercom_sender

\* C4, as claimed: the status of a service is Shutdown if and only if no
\* user task of the service is live.
C4_ShutdownIffNoUserTask ==
    \A m \in Managers :
        status[m] = "Shutdown" <=> task[m] \notin {"running", "aborting"}

\* C4, amended: the status is Shutdown only when no control task of the
\* service is live, a status other than Shutdown while the watchdog runs
\* means a control task of the service is live, and a user task whose abort
\* was not asked for never has status Shutdown.
C4_ShutdownIffNoWatcher ==
    \A m \in Managers :
        /\ status[m] = "Shutdown" => watcher[m] = "none"
        /\ (wd = "running" /\ status[m] # "Shutdown") => watcher[m] # "none"
        /\ task[m] = "running" => status[m] # "Shutdown"

\* the user task has ended and the control task has not seen it yet
C4_EndNotYetSeen ==
    \E m \in Managers :
        /\ task[m] = "done" /\ watcher[m] = "loop"
        /\ status[m] \in {"Started", "ShuttingDown"}

\* C5: Stop on a service whose status is Shutdown writes nothing to the
\* control cell, and the control task of an activation consumes only
\* commands written during that activation.
C5_NoStaleControl ==
    [][\A m \in Managers :
          /\ ( /\ wd = "running" /\ cc # << >> /\ cc' = Tail(cc)
               /\ Head(cc).cmd = "Stop" /\ Head(cc).service_identifier = m
               /\ status[m] = "Shutdown" )
             => control'[m] = control[m]
          /\ ( /\ watcher[m] = "loop" /\ control[m].cmd # "Empty"
               /\ control'[m] = EmptyCell )
             => control[m].epoch = started[m]]_vars

C7_SendToStopped ==
    [][\A f \in Facades :
          /\ reply'[f] = Ok
             => \E m \in Managers :
                   /\ task[m] \in {"running", "aborting"} /\ started[m] > 0
                   /\ receiver[m] = facade[f].sender
                   /\ chanQueue'[m] = Append(chanQueue[m], facade[f].msg)
          /\ ( /\ facade[f].pc = "send" /\ facade'[f] # facade[f]
               /\ Connected(facade[f].sender) = {} )
             => \/ reply'[f] = CannotConnectToService(
                       SERVICE_IDENTIFIER(facade[f].target),
                       facade[f].retry_attempted)
                \/ facade'[f].pc = "await" /\ facade'[f].retry_attempted
                \/ reply'[f] = NoReply(Context("Intercom"))]_vars

\* a send to a service that was never started failed
C7_NeverStarted ==
    \E f \in Facades, m \in Managers :
        /\ reply[f] = CannotConnectToService(m, FALSE)
        /\ started[m] = 0 /\ accepted = {}

\* C8, as claimed: a send that began with a cached sender of a target
\* restarted since ends in Ok after one new fetch or in
\* CannotConnectToService with retry_attempted.
C8_ReconnectOrCannotConnect ==
    [][\A f \in Facades :
          (facade'[f].stale /\ reply'[f].kind \notin {"None", "Ok"})
          => reply'[f] = CannotConnectToService(
                 SERVICE_IDENTIFIER(facade[f].target), TRUE)]_vars

\* C8, amended: such a send ends in Ok after exactly one new fetch, the
\* message queued on the channel of the current sender of the target, or in
\* CannotConnectToService with retry_attempted when the target is not
\* running on the sender fetched, or in NoReply when the watchdog loop
\* has ended; the new fetch yields the current sender of the target and no send
\* fetches more than once.
C8_Reconnect ==
    /\ [](\A f \in Facades : facade[f].fetches <= 1)
    /\ [][\A f \in Facades :
             facade'[f].stale
             => /\ reply'[f] = Ok
                   => /\ facade[f].fetches = 1 /\ facade[f].retry_attempted
                      /\ \E m \in Managers :
                            /\ m = SERVICE_IDENTIFIER(facade[f].target)
                            /\ intercom_sender[m] = facade[f].sender
                            /\ chanQueue'[m] =
                                  Append(chanQueue[m], facade[f].msg)
                /\ reply'[f].kind \notin {"None", "Ok"}
                   => \/ /\ reply'[f] = CannotConnectToService(
                                SERVICE_IDENTIFIER(facade[f].target), TRUE)
                         /\ \A m \in Managers :
                               m = SERVICE_IDENTIFIER(facade[f].target)
                               => \/ receiver[m] = 0
                                  \/ intercom_sender[m] # facade[f].sender
                      \/ /\ reply'[f] = NoReply(Context("Intercom"))
                         /\ wd' # "running"
                /\ (facade[f].pc = "await" /\ facade'[f].pc = "send")
                   => \E m \in Managers :
                         /\ m = SERVICE_IDENTIFIER(facade[f].target)
                         /\ facade'[f].sender = intercom_sender[m]]_vars

\* a send that began with the sender of an earlier activation returned Ok
C8_Reconnected ==
    \E f \in Facades :
        /\ reply[f] = Ok
        /\ facade[f].stale /\ facade[f].retry_attempted
        /\ facade[f].fetches = 1

\* C9: a Start, Stop, Status or Intercom command whose identifier is not the
\* SERVICE_IDENTIFIER of a service of the aggregate is answered
\* UnknownService with that identifier and with the SERVICE_IDENTIFIERs of
\* the services of the aggregate, in declaration order, and changes no
\* status, sender or counter of starts.
C9_UnknownService ==
    [][( /\ wd = "running" /\ cc # << >> /\ cc' = Tail(cc)
         /\ HasReply(Head(cc))
         /\ \A i \in 1..Len(fields) :
               Head(cc).service_identifier # SERVICE_IDENTIFIER(fields[i].ty) )
       => /\ reply'[Head(cc).from] =
                [kind |-> "UnknownService",
                 service_identifier |-> Head(cc).service_identifier,
                 possible_values |->
                    [i \in 1..Len(fields) |-> SERVICE_IDENTIFIER(fields[i].ty)]]
          /\ UNCHANGED << status, intercom_sender, started >>]_vars

\* C10: a command that carries the SERVICE_IDENTIFIER of a service of the
\* aggregate is never answered UnknownService.
C10_TypedDispatch ==
    [][\A i \in 1..Len(fields) :
          ( /\ wd = "running" /\ cc # << >> /\ cc' = Tail(cc)
            /\ HasReply(Head(cc))
            /\ Head(cc).service_identifier = SERVICE_IDENTIFIER(fields[i].ty) )
          => reply'[Head(cc).from].kind # "UnknownService"]_vars

\* C11: the counters of sent and of received messages that status reports
\* for a service never decrease, whatever happens to the service, a stop and
\* a restart included, and the count of connections decreases only in a step
\* that drops a sender of its channel.
C11_CountersNeverDecrease ==
    [][\A m \in Managers :
          /\ ServiceManager_status(m)'.intercom.number_sent
                >= ServiceManager_status(m).intercom.number_sent
          /\ ServiceManager_status(m)'.intercom.number_received
                >= ServiceManager_status(m).intercom.number_received
          /\ \/ ServiceManager_status(m)'.intercom.number_connections
                   >= ServiceManager_status(m).intercom.number_connections
             \/ intercom_sender'[m] # intercom_sender[m]
             \/ \E f \in Facades : facade'[f].sender # facade[f].sender]_vars

\* a Shutdown or a Kill command waits in the queue of the running watchdog
ExitQueued ==
    /\ wd = "running"
    /\ \E i \in 1..Len(cc) : cc[i].cmd \in {"Shutdown", "Kill"}

\* C12: once a Shutdown or a Kill command is posted, the watchdog loop does
\* not end without emitting the finished notification, the notification is
\* emitted once, and wait_finished returns rather than panics.
C12_ExitNotifiesFinished ==
    /\ [](finished <= 1)
    /\ [][(ExitQueued /\ wd' # "running") => finished' = 1]_vars
    /\ [][(exitsPosted > 0 /\ monitor' # monitor) => monitor' = "returned"]_vars

\* C13: the step in which the watchdog handles Shutdown and the step in which
\* it handles Kill are the same function of the state before: the loop ends,
\* the notification is sent, the queue is dropped, every caller waiting for a
\* reply gets NoReply with the context of its call, no status changes, and
\* Kill is written to every service that is not Shutdown; posting either
\* command adds just the command to the queue.
C13_ShutdownIsKill ==
    /\ [][( /\ wd = "running" /\ cc # << >>
            /\ Head(cc).cmd \in {"Shutdown", "Kill"} /\ Len(cc') < Len(cc) )
          => /\ wd' = "finished" /\ finished' = finished + 1 /\ cc' = << >>
             /\ status' = status /\ started' = started
             /\ task' = task /\ watcher' = watcher
             /\ \A m \in Managers :
                   IF status[m] = "Shutdown"
                   THEN control'[m] = control[m]
                   ELSE /\ control'[m].cmd = "Kill"
                        /\ control'[m].epoch = started[m]
             /\ \A x \in Clients \cup Facades :
                   reply'[x] = IF Idle(x) THEN NoValue
                               ELSE NoReply(Context(
                                      (CHOOSE c \in Pending(x) : TRUE).cmd))]_vars
    /\ [][( /\ wd = "running" /\ exitsPosted' = exitsPosted + 1 )
          => /\ \E cmd \in {"Shutdown", "Kill"} :
                   /\ Len(cc') = Len(cc) + 1
                   /\ cc'[Len(cc')].cmd = cmd
                   /\ SubSeq(cc', 1, Len(cc)) = cc
             /\ reply' = NoReplies
             /\ UNCHANGED << managerVars, wd, finished, facade >>]_vars

\* the watchdog ended on a Shutdown or a Kill command with a service running,
\* which was sent Kill
C13_ExitedWithRunning ==
    /\ wd = "finished" /\ finished = 1
    /\ \E m \in Managers :
          /\ status[m] \in {"Starting", "Started"}
          /\ control[m].cmd = "Kill"
          /\ task[m] = "running"

\* C14: every service reaches status Shutdown after the watchdog ended on a
\* Shutdown or a Kill command. Once wait_finished has returned no control
\* task is left to change a status, so by then every service has status
\* Shutdown.
C14_AllShutdownInTheEnd ==
    monitor = "returned" => \A m \in Managers : status[m] = "Shutdown"

\* C15: a start, stop or status call that gets no answer from the watchdog
\* returns NoReply with the context of the call, "start query", "stop query"
\* or "status query": at once when the watchdog is gone, and when the
\* watchdog goes while the command waits for its answer; the step that
\* returns NoReply changes no status, no counter of starts, no sender and no
\* task of any service.
C15_NoReplyWithoutEffect ==
    [][\A c \in Clients :
          reply'[c].kind = "NoReply"
          => /\ \/ wd # "running" /\ Idle(c)
                \/ wd = "running" /\ wd' # "running" /\ ~Idle(c)
             /\ reply'[c].context \in {"start query", "stop query", "status query"}
             /\ \A i \in 1..Len(cc) :
                   (cc[i].from = c /\ HasReply(cc[i]))
                   => reply'[c].context =
                         CASE cc[i].cmd = "Start" -> "start query"
                           [] cc[i].cmd = "Stop" -> "stop query"
                           [] cc[i].cmd = "Status" -> "status query"
             /\ UNCHANGED << status, started, intercom_sender, intercom_stats,
                             receiver, task, watcher >>]_vars

\* C16: a failure of the user code of a service ends only the activation of
\* that service: the watchdog loop ends on a Shutdown or a Kill command only,
\* a Start whose service does not come up leaves the status of the service
\* Shutdown, and the end of a user task, by return or by panic, changes
\* neither the watchdog nor the status of another service.
C16_FailureIsolation ==
    /\ [][wd' # wd
          => /\ cc # << >> /\ Head(cc).cmd \in {"Shutdown", "Kill"}
             /\ wd' = "finished"]_vars
    /\ [][\A m \in Managers :
             ( /\ wd = "running" /\ cc # << >> /\ Len(cc') < Len(cc)
               /\ Head(cc).cmd = "Start" /\ Head(cc).service_identifier = m
               /\ status[m] = "Shutdown" /\ reply'[Head(cc).from] # Ok )
             => status'[m] = "Shutdown"]_vars
    /\ [][\A m \in Managers :
             (task[m] = "running" /\ task'[m] = "done")
             => /\ wd' = wd /\ cc' = cc
                /\ \A n \in Managers \ {m} : status'[n] = status[n]]_vars

\* C17: a Start handled for a service that was started before and whose
\* status is Shutdown again is answered Ok, when prepare returns, with the
\* counter of starts one higher and the status Starting; the status leaves
\* Starting for Started only; and a sender cloned during an earlier
\* activation never queues a message for the current one: its send fails.
C17_RestartAfterShutdown ==
    /\ [][\A m \in Managers :
             ( /\ wd = "running" /\ wd' = "running"
               /\ cc # << >> /\ cc' = Tail(cc)
               /\ Head(cc).cmd = "Start" /\ Head(cc).service_identifier = m
               /\ started[m] >= 1 /\ status[m] = "Shutdown" )
             => /\ reply'[Head(cc).from] = Ok
                /\ started'[m] = started[m] + 1
                /\ status'[m] = "Starting"
                /\ task'[m] = "running"
                /\ receiver'[m] = intercom_sender'[m]
                /\ intercom_sender'[m] # intercom_sender[m]]_vars
    /\ [][\A m \in Managers :
             (status[m] = "Starting" /\ status'[m] # "Starting")
             => status'[m] = "Started"]_vars
    /\ [][\A f \in Facades : \A m \in Managers :
             ( /\ facade[f].pc = "send"
               /\ m = SERVICE_IDENTIFIER(facade[f].target)
               /\ facade[f].activation < started[m]
               /\ facade'[f] # facade[f] )
             => /\ reply'[f] # Ok
                /\ chanQueue' = chanQueue /\ accepted' = accepted
                /\ \/ facade'[f].retry_attempted
                   \/ reply'[f].kind = "CannotConnectToService"]_vars

\* the service runs its second activation and the send on a sender cloned
\* during the first one has failed
C17_RestartedOldSenderFailed ==
    \E m \in Managers : \E f \in Facades :
        /\ started[m] = 2 /\ status[m] = "Started" /\ task[m] = "running"
        /\ m = SERVICE_IDENTIFIER(facade[f].target)
        /\ facade[f].stale /\ facade[f].retry_attempted

\* C18: every change of the status of a service is one of Shutdown ->
\* Starting, Starting -> Started, Started -> ShuttingDown, ShuttingDown ->
\* Shutdown, Starting -> Shutdown and Started -> Shutdown.
C18_StatusEdges ==
    [][\A m \in Managers :
          status'[m] # status[m]
          => << status[m], status'[m] >> \in
                { << "Shutdown", "Starting" >>, << "Starting", "Started" >>,
                  << "Started", "ShuttingDown" >>,
                  << "ShuttingDown", "Shutdown" >>,
                  << "Starting", "Shutdown" >>,
                  << "Started", "Shutdown" >> }]_vars

\* a service in its second activation was asked to stop: its status went
\* round the cycle once and is ShuttingDown
C18_SecondCycle ==
    \E m \in Managers : started[m] = 2 /\ status[m] = "ShuttingDown"

\* C19: when the system has finished (wait_finished has returned), every
\* message whose send to a Starting or Started service completed before
\* shutdown was posted has been received by that service, and each service
\* received its messages in the order of the sends.
C19_ForwardedBeforeQuitIsWritten ==
    monitor = "returned"
    => /\ \A a \in accepted :
             (a.early /\ a.before)
             => \E i \in 1..Len(recvLog[a.to]) : recvLog[a.to][i] = a.msg
       /\ \A m \in Managers : \A i, j \in 1..Len(recvLog[m]) :
             i < j => recvLog[m][i] < recvLog[m][j]

\* C20: a send through an Intercom handle that had no sender is rejected with
\* CannotConnectToService only if the activation of the target that was
\* current when the sender was fetched has ended, or the target was never
\* started; while that activation lives the send is not rejected, and when
\* it returns Ok the message is queued for the target.
C20_FirstSendConnects ==
    [][\A f \in Facades : \A m \in Managers :
          ( /\ m = SERVICE_IDENTIFIER(facade[f].target)
            /\ facade[f].pc = "send" /\ facade[f].fetches = 1
            /\ ~facade[f].retry_attempted
            /\ facade'[f].pc = "idle" )
          => /\ reply'[f].kind = "CannotConnectToService"
                => ~( /\ started[m] = facade[f].activation
                      /\ task[m] \in {"running", "aborting"} )
             /\ reply'[f] = Ok
                => /\ chanQueue'[m] = Append(chanQueue[m], facade[f].msg)
                   /\ task[m] \in {"running", "aborting"}
             /\ reply'[f].kind \in {"CannotConnectToService", "Ok"}]_vars

\* the first send through a handle returned Ok while the target was still
\* Starting and had received nothing
C20_FirstSendWhileStarting ==
    \E f \in Facades : \E m \in Managers :
        /\ m = SERVICE_IDENTIFIER(facade[f].target)
        /\ reply[f] = Ok
        /\ facade[f].fetches = 1 /\ ~facade[f].retry_attempted
        /\ status[m] = "Starting" /\ recvLog[m] = << >>
        /\ chanQueue[m] # << >>

\* the handle whose send of a message completed
SenderOf(msg) == (CHOOSE a \in accepted : a.msg = msg).from

\* C21: a service receives the messages of one handle in the order in which
\* the sends of that handle completed, which is the order of their numbers;
\* every message received is one whose send to that service completed, and
\* none is received twice, whatever the other handle sends in between.
C21_SenderOrder ==
    \A m \in Managers : \A i, j \in 1..Len(recvLog[m]) :
        /\ \E a \in accepted : a.msg = recvLog[m][i] /\ a.to = m
        /\ i # j => recvLog[m][i] # recvLog[m][j]
        /\ (i < j /\ SenderOf(recvLog[m][i]) = SenderOf(recvLog[m][j]))
           => recvLog[m][i] < recvLog[m][j]

\* a service received two messages of one handle with a message of the other
\* handle between them
C21_Interleaved ==
    \E m \in Managers : \E i \in 1..Len(recvLog[m]) :
        /\ i + 2 <= Len(recvLog[m])
        /\ SenderOf(recvLog[m][i]) = SenderOf(recvLog[m][i + 2])
        /\ SenderOf(recvLog[m][i]) # SenderOf(recvLog[m][i + 1])

\* C22: a channel never holds more than INTERCOM_CAPACITY messages; a send
\* completes only in a step that finds the queue of a live receiver short of
\* the capacity, and never on a channel whose receiver was dropped, where it
\* fails; a completed send adds one to the counter of sent messages of the
\* service and a recv that returns a message adds one to the counter of
\* received messages, which never exceeds the counter of sent messages.
C22_BoundedChannel ==
    /\ [](\A m \in Managers :
             /\ Len(chanQueue[m]) <= INTERCOM_CAPACITY
             /\ counters[m].number_received <= counters[m].number_sent)
    /\ [][\A f \in Facades :
             (facade[f].pc = "send" /\ facade'[f] # facade[f])
             => IF Connected(facade[f].sender) = {}
                THEN /\ reply'[f] # Ok
                     /\ chanQueue' = chanQueue /\ counters' = counters
                     /\ \/ reply'[f].kind \in {"CannotConnectToService", "NoReply"}
                        \/ facade'[f].retry_attempted
                ELSE /\ reply'[f] = Ok
                     /\ \A m \in Connected(facade[f].sender) :
                           /\ Len(chanQueue[m]) < INTERCOM_CAPACITY
                           /\ chanQueue'[m] = Append(chanQueue[m], facade[f].msg)
                           /\ counters'[m].number_sent =
                                 counters[m].number_sent + 1
                           /\ counters'[m].number_received =
                                 counters[m].number_received]_vars
    /\ [][\A m \in Managers :
             recvLog'[m] # recvLog[m]
             => /\ chanQueue[m] # << >>
                /\ chanQueue'[m] = Tail(chanQueue[m])
                /\ recvLog'[m] = Append(recvLog[m], Head(chanQueue[m]))
                /\ counters'[m].number_received =
                      counters[m].number_received + 1
                /\ counters'[m].number_sent = counters[m].number_sent]_vars

\* the queue of a running service is full and a send waits for a slot
C22_SendWaitsOnFullQueue ==
    \E m \in Managers : \E f \in Facades :
        /\ Len(chanQueue[m]) = INTERCOM_CAPACITY
        /\ facade[f].pc = "send" /\ m \in Connected(facade[f].sender)

\* C23: whatever commands were sent to a control cell since it was last
\* read, the cell holds one value: none when nothing was sent, Kill when one
\* of them was Kill, Shutdown otherwise; a step that reads the cell leaves
\* it empty, and a command sent never turns a Kill into Shutdown.
C23_Coalescing ==
    /\ [](\A m \in Managers :
             /\ control[m].written = {} <=> control[m].cmd = "Empty"
             /\ "Kill" \in control[m].written <=> control[m].cmd = "Kill"
             /\ control[m].written = {"Shutdown"} <=> control[m].cmd = "Shutdown"
             /\ updated(m) = IF control[m].written = {} THEN "None"
                             ELSE control[m].cmd)
    /\ [][\A m \in Managers :
             /\ control[m].cmd = "Kill"
                => control'[m].cmd = "Kill" \/ control'[m] = EmptyCell
             /\ control'[m].written = {}
                \/ control[m].written \subseteq control'[m].written]_vars

\* Kill and Shutdown were both sent to a cell that was not read since: the
\* cell holds Kill
C23_KillOverShutdown ==
    \E m \in Managers :
        control[m].written = {"Shutdown", "Kill"} /\ control[m].cmd = "Kill"

\* C24: the step that destroys the managers sends Kill to the cell of every
\* manager whose status is not Shutdown and leaves the cell of a manager
\* whose status is Shutdown as it was; a control task that reads Kill, or
\* finds the cell empty with its writer gone, marks the status Shutdown,
\* aborts the user task and exits.
C24_DropSendsKill ==
    [][\A m \in Managers :
          /\ wd = "running" /\ wd' # "running"
             => IF status'[m] = "Shutdown"
                THEN control'[m] = control[m]
                ELSE control'[m].cmd = "Kill"
          /\ /\ watcher[m] = "loop" /\ monitor' = monitor
             /\ \/ control[m].cmd = "Kill" /\ control'[m] = EmptyCell
                \/ updated(m) = "None" /\ ~ControllerAlive /\ watcher'[m] = "none"
             => /\ status'[m] = "Shutdown"
                /\ watcher'[m] = "none"
                /\ task'[m] = abort(task[m])]_vars

\* the managers were destroyed while a service ran, and its control task
\* has read the Kill: the user task is aborted
C24_KilledByDrop ==
    \E m \in Managers :
        /\ wd # "running" /\ "Kill" \notin control[m].written
        /\ status[m] = "Shutdown" /\ watcher[m] = "none" /\ task[m] = "aborting"

\* C25: a control task that reads Shutdown sets the status to ShuttingDown,
\* stays in its loop and leaves the user task alone; a user task is aborted
\* only on Kill or on a dropped controller, and the status becomes Shutdown
\* only when the user task has completed or Kill or a dropped controller is
\* read.
C25_GracefulStop ==
    [][\A m \in Managers :
          /\ control[m].cmd = "Shutdown" /\ control'[m] = EmptyCell
             => /\ watcher[m] = "loop" /\ watcher'[m] = "loop"
                /\ status'[m] = "ShuttingDown"
                /\ task'[m] = task[m]
          /\ task[m] # "aborting" /\ task'[m] = "aborting"
             => updated(m) = "Kill" \/ (updated(m) = "None" /\ ~ControllerAlive)
          /\ status[m] # "Shutdown" /\ status'[m] = "Shutdown"
             => \/ task[m] = "done"
                \/ updated(m) = "Kill"
                \/ updated(m) = "None" /\ ~ControllerAlive]_vars

\* after a graceful stop the user task has returned by itself, and the
\* status is still ShuttingDown until the control task sees it
C25_FinishedAfterShutdown ==
    \E m \in Managers :
        /\ status[m] = "ShuttingDown" /\ task[m] = "done"
        /\ watcher[m] = "loop" /\ control[m] = EmptyCell /\ wd = "running"

\* C26: a control task that reads Kill marks the status Shutdown, aborts the
\* user task and exits; an aborted user task never runs on past the point
\* where the abort takes effect and takes no step after it, and once the
\* watchdog is gone no status is written for a service without control task.
C26_KillAborts ==
    [][\A m \in Managers :
          /\ control[m].cmd = "Kill" /\ control'[m] = EmptyCell
             => /\ watcher[m] = "loop" /\ watcher'[m] = "none"
                /\ status'[m] = "Shutdown"
                /\ task'[m] = abort(task[m])
                /\ task'[m] \in {"aborting", "idle"}
          /\ task[m] = "aborting" => task'[m] \in {"aborting", "idle"}
          /\ task[m] = "idle" /\ wd # "running"
             => task'[m] = "idle" /\ recvLog'[m] = recvLog[m]
          /\ watcher[m] = "none" /\ wd # "running"
             => watcher'[m] = "none" /\ status'[m] = status[m]]_vars

\* a killed user task was dropped at a suspension point with a message
\* still in its queue, after it had received another one
C26_AbortedWithMessages ==
    \E m \in Managers :
        /\ wd # "running" /\ control[m] = EmptyCell
        /\ status[m] = "Shutdown" /\ watcher[m] = "none" /\ task[m] = "idle"
        /\ recvLog[m] # << >>
        /\ \E l \in lost : l.cause = "abort"

\* C27: as long as the control task of an activation has not taken its first
\* step the status of the service is Starting, and a Status command handled
\* then is answered with Starting; the status becomes Started by the first
\* step of the control task only.
C27_StartedByWatcher ==
    /\ [](\A m \in Managers : watcher[m] = "spawned" => status[m] = "Starting")
    /\ [][\A m \in Managers :
             /\ status[m] # "Started" /\ status'[m] = "Started"
                => watcher[m] = "spawned" /\ watcher'[m] = "loop"
             /\ /\ wd = "running" /\ cc # << >> /\ cc' = Tail(cc)
                /\ Head(cc).cmd = "Status" /\ Head(cc).service_identifier = m
                /\ watcher[m] = "spawned"
                => /\ reply'[Head(cc).from].kind = "StatusReport"
                   /\ reply'[Head(cc).from].status = "Starting"]_vars

\* a caller is told Starting for a service whose start was answered and
\* whose control task has not run yet
C27_StartingReported ==
    \E c \in Clients, m \in Managers :
        /\ reply[c].kind = "StatusReport" /\ reply[c].identifier = m
        /\ reply[c].status = "Starting" /\ reply[c].started > 0
        /\ watcher[m] = "spawned"

\* C28: a Stop command that carries the SERVICE_IDENTIFIER of a service of
\* the aggregate is answered Ok in the step that takes it from the queue,
\* and the watchdog goes on; Shutdown is sent to the control cell of the
\* service when its status is Starting or Started, and the cell is left as
\* it was otherwise; status, sender and counter of starts are unchanged.
C28_StopReplies ==
    [][\A i \in 1..Len(fields) :
          ( /\ wd = "running" /\ cc # << >> /\ cc' = Tail(cc)
            /\ Head(cc).cmd = "Stop"
            /\ Head(cc).service_identifier = SERVICE_IDENTIFIER(fields[i].ty) )
          => LET m == fields[i].name IN
             /\ reply'[Head(cc).from] = Ok
             /\ wd' = "running"
             /\ control'[m] = IF status[m] \in {"Starting", "Started"}
                              THEN Controller_send(control[m], "Shutdown", started[m])
                              ELSE control[m]
             /\ UNCHANGED << status, intercom_sender, started >>]_vars

\* C29: the step that answers a Start command with CannotStartService
\* changes no manager: sender, statistics, counters and counter of starts
\* are the same, no channel is allocated, no user task and no control task
\* is spawned, no control cell is written, and the receivers, their queues
\* and the senders that the handles hold are the same, so that a handle
\* connected to the running activation stays connected to it.
C29_RefusedStartChangesNothing ==
    [][( /\ wd = "running" /\ cc # << >> /\ cc' = Tail(cc)
         /\ Head(cc).cmd = "Start"
         /\ reply'[Head(cc).from].kind = "CannotStartService" )
       => /\ UNCHANGED << started, intercom_sender, intercom_stats, counters,
                          nextChan >>
          /\ UNCHANGED << status, transitions, task, watcher, control >>
          /\ UNCHANGED << receiver, chanQueue, wd >>
          /\ \A f \in Facades :
                /\ facade'[f].sender = facade[f].sender
                /\ Connected(facade[f].sender)' = Connected(facade[f].sender)]_vars

\* a start was refused while the service ran with a handle connected to it,
\* and the handle is still connected to the activation
C29_RefusedWhileConnected ==
    \E c \in Clients, m \in Managers, f \in Facades :
        /\ reply[c].kind = "CannotStartService"
        /\ reply[c].source = CannotStart("Started")
        /\ started[m] = 1 /\ task[m] = "running"
        /\ Connected(facade[f].sender) = {m}

\* C30: the command queue changes only by a command appended at its end or
\* by the watchdog taking its head (or dropping the queue when it ends); the
\* fields of the managers change only in a step in which the running
\* watchdog takes a command from the queue, one command per step; the step
\* that takes a Start, Stop, Status or Intercom command delivers its reply to
\* the caller of that command (to the handle that waits for the sender, for
\* an Intercom command) and to no one else.
C30_SingleConsumer ==
    [][/\ \/ cc' = cc
          \/ \E command \in {cc'[Len(cc')] : i \in {j \in {1} : cc' # << >>}} :
                cc' = Append(cc, command)
          \/ wd = "running" /\ cc # << >> /\ cc' = Tail(cc)
          \/ wd = "running" /\ cc # << >> /\ wd' # "running" /\ cc' = << >>
       /\ << started, intercom_sender, intercom_stats, nextChan >>'
             # << started, intercom_sender, intercom_stats, nextChan >>
          => wd = "running" /\ cc # << >> /\ Len(cc') < Len(cc)
       /\ wd = "running" /\ cc # << >> /\ Len(cc') < Len(cc) /\ HasReply(Head(cc))
          => /\ reply'[Head(cc).from] # NoReply(Context(Head(cc).cmd))
             /\ IF Head(cc).cmd = "Intercom"
                THEN /\ facade[Head(cc).from].pc = "await"
                     /\ facade'[Head(cc).from].pc # "await"
                ELSE reply'[Head(cc).from] # NoValue
             /\ \A x \in (Clients \cup Facades) \ {Head(cc).from} :
                   reply'[x] = NoValue]_vars

\* C31: when only the tasks of the watchdog runtime are scheduled fairly,
\* whatever the user tasks do and however long they run, every caller that
\* waits for the reply to a command stops waiting, and a command in the
\* control cell of a service whose control task is in its loop is read by
\* it, unless the control task ends first (it saw the user task complete, or
\* the runtimes were dropped).
C31_ManagementNotStarved ==
    /\ \A x \in Clients \cup Facades : ~Idle(x) ~> Idle(x)
    /\ \A m \in Managers :
          (watcher[m] = "loop" /\ control[m].cmd # "Empty")
             ~> (control[m].cmd = "Empty" \/ watcher[m] = "none")

\* the service is ShuttingDown: its control task has read the Shutdown while
\* the user task, still running, has not received the message in its queue
C31_StoppedWhileBusy ==
    \E m \in Managers :
        /\ status[m] = "ShuttingDown" /\ control[m] = EmptyCell
        /\ task[m] = "running" /\ chanQueue[m] # << >> /\ recvLog[m] = << >>
        /\ wd = "running" /\ cc = << >>

\* C32: the status of a service is written either by the step of the
\* watchdog that starts an activation, which finds the status Shutdown and
\* no control task of the service alive and writes Starting, or by a step of
\* the control task of the current activation; a control task is gone once
\* it has written Shutdown, so every write of an activation comes before
\* the first write of the next one.
C32_OneStatusWriter ==
    /\ [](\A m \in Managers : status[m] = "Shutdown" => watcher[m] = "none")
    /\ [][\A m \in Managers :
             /\ status'[m] # status[m]
                => \/ /\ wd = "running" /\ cc # << >> /\ Len(cc') < Len(cc)
                      /\ Head(cc).cmd = "Start" /\ Head(cc).service_identifier = m
                      /\ status[m] = "Shutdown" /\ status'[m] = "Starting"
                      /\ watcher[m] = "none"
                      /\ started'[m] = started[m] + 1
                   \/ /\ watcher[m] \in {"spawned", "loop"}
                      /\ started'[m] = started[m]
                      /\ status'[m] = "Shutdown" <=> watcher'[m] = "none"
             /\ started'[m] # started[m]
                => watcher[m] = "none" /\ status'[m] = "Starting"]_vars

\* the control task of the second activation of a service has written
\* Started, after the one of the first activation wrote Shutdown and ended
C32_SecondWriter ==
    \E m \in Managers :
        /\ started[m] = 2 /\ transitions[m] = 2
        /\ status[m] = "Started" /\ watcher[m] = "loop"

\* C33: the watchdog loop ends only in a step that takes a Shutdown or a
\* Kill command from the queue; as long as none was posted the loop runs,
\* the finished notification is not sent and wait_finished has not returned.
C33_OnlyExitEndsLoop ==
    /\ [](exitsPosted = 0
          => wd = "running" /\ finished = 0 /\ monitor = "waiting")
    /\ [][wd = "running" /\ wd' # "running"
          => cc # << >> /\ Head(cc).cmd \in {"Shutdown", "Kill"}]_vars

\* C34: while the aggregate exists, recv on the receiver of a live user task
\* cannot return None, because the manager holds a sender of the channel of
\* that receiver; a user task that loops on recv until None keeps running as
\* long as the aggregate exists, and ends only aborted, or by itself once
\* the aggregate and every other sender are gone, or with its runtime.
C34_RecvNeverNone ==
    /\ [](\A m \in Managers :
             ControllerAlive /\ task[m] \in {"running", "aborting"}
             => /\ intercom_sender[m] = receiver[m]
                /\ ~recv_None(m))
    /\ [][\A m \in Managers :
             /\ ControllerAlive /\ task[m] = "running" => task'[m] = "running"
             /\ task[m] = "running" /\ task'[m] # "running"
                => \/ task'[m] = "aborting"
                   \/ task'[m] = "done" /\ recv_None(m)
                   \/ task'[m] = "idle" /\ monitor' # monitor]_vars

\* a user task waits in recv on an empty queue while its service is being
\* stopped; the only sender of its channel is the one of its manager
C34_OnlyManagerHoldsSender ==
    \E m \in Managers :
        /\ ControllerAlive /\ task[m] = "running" /\ status[m] = "ShuttingDown"
        /\ chanQueue[m] = << >>
        /\ \A f \in Facades : facade[f].sender # receiver[m]
        /\ number_connections(receiver[m]) = 1

\* C35: while the status of a service is ShuttingDown a Start command for it
\* is answered CannotStartService with the cause CannotStart{ShuttingDown}
\* and changes nothing, and a Stop command for it leaves every control cell
\* as it was; the status leaves ShuttingDown only for Shutdown, when the
\* control task sees the user task completed or reads Kill or finds its
\* controller dropped; as long as the watchdog runs and the user task has
\* not completed, the status stays ShuttingDown.
C35_ShuttingDownIsStuck ==
    [][\A m \in Managers :
          /\ ( /\ wd = "running" /\ cc # << >> /\ Len(cc') < Len(cc)
               /\ Head(cc).service_identifier = m
               /\ status[m] = "ShuttingDown" )
             => /\ Head(cc).cmd = "Start"
                   => /\ reply'[Head(cc).from]
                         = CannotStartService(m, CannotStart("ShuttingDown"))
                      /\ UNCHANGED << runtimeVars, activationVars, control >>
                /\ Head(cc).cmd = "Stop"
                   => /\ reply'[Head(cc).from] = Ok
                      /\ UNCHANGED << runtimeVars, activationVars, control >>
          /\ status[m] = "ShuttingDown" /\ status'[m] # "ShuttingDown"
             => /\ status'[m] = "Shutdown"
                /\ \/ task[m] = "done"
                   \/ updated(m) = "Kill"
                   \/ updated(m) = "None" /\ ~ControllerAlive
          /\ status[m] = "ShuttingDown" /\ wd = "running" /\ task[m] # "done"
             => status'[m] = "ShuttingDown"]_vars

\* a start was refused because the service is ShuttingDown, and the user
\* task has not finished
C35_RefusedWhileShuttingDown ==
    \E c \in Clients, m \in Managers :
        /\ reply[c] = CannotStartService(m, CannotStart("ShuttingDown"))
        /\ status[m] = "ShuttingDown" /\ task[m] = "running"
        /\ control[m] = EmptyCell

\* C36: in the step that answers a Start command with Ok the counter of
\* starts of the service is incremented, a new sender is stored, the status
\* is Starting and the user task and the control task are spawned; a status
\* report carries the current counter of starts, which never decreases, and
\* a report of a service that was started says Shutdown only when its
\* activation has ended (no control task and no user task of it is left).
C36_OkAfterStart ==
    /\ [][\A m \in Managers :
             ( /\ wd = "running" /\ cc # << >> /\ Len(cc') < Len(cc)
               /\ Head(cc).cmd = "Start" /\ Head(cc).service_identifier = m
               /\ reply'[Head(cc).from] = Ok )
             => /\ started'[m] = started[m] + 1
                /\ intercom_sender'[m] = nextChan
                /\ intercom_sender'[m] # intercom_sender[m]
                /\ receiver'[m] = intercom_sender'[m]
                /\ status'[m] = "Starting"
                /\ task'[m] = "running" /\ watcher'[m] = "spawned"
                /\ wd' = "running"]_vars
    /\ [][\A m \in Managers : started'[m] >= started[m]]_vars
    /\ [](\A c \in Clients :
             reply[c].kind = "StatusReport"
             => LET m == reply[c].identifier IN
                /\ reply[c].started = started[m]
                /\ reply[c].status = status[m]
                /\ reply[c].status = "Shutdown" /\ started[m] > 0
                   => watcher[m] = "none" /\ task[m] = "idle")

\* a caller has just been answered Ok to its start: the service is Starting
\* with its tasks spawned and no command was sent to it
C36_JustStarted ==
    \E c \in Clients, m \in Managers :
        /\ reply[c] = Ok /\ cc = << >>
        /\ status[m] = "Starting" /\ started[m] = 1 /\ control[m] = EmptyCell
        /\ task[m] = "running" /\ watcher[m] = "spawned"
        /\ intercom_sender[m] = receiver[m]

\* C37: a user task of a service is spawned, and the counter of starts
\* incremented, only by the running watchdog and only when the status of
\* the service is Shutdown and no user task of it is left; while the
\* aggregate exists a status of Shutdown means that the user task has
\* completed, so a user task still alive under status Shutdown exists only
\* once the aggregate is dropped, and from then on nothing is started.
C37_OneUserTask ==
    /\ [](\A m \in Managers :
             /\ ControllerAlive /\ status[m] = "Shutdown" => task[m] = "idle"
             /\ status[m] = "Shutdown" /\ task[m] \in {"running", "aborting"}
                => ~ControllerAlive /\ watcher[m] = "none")
    /\ [][\A m \in Managers :
             /\ started'[m] # started[m] \/ (task'[m] = "running" /\ task[m] # "running")
                => /\ ControllerAlive /\ cc # << >> /\ Head(cc).cmd = "Start"
                   /\ status[m] = "Shutdown" /\ task[m] = "idle"
                   /\ started'[m] = started[m] + 1
             /\ ControllerAlive /\ status[m] # "Shutdown" /\ status'[m] = "Shutdown"
                => task[m] = "done" /\ task'[m] = "idle"
             /\ ~ControllerAlive
                => /\ ~ControllerAlive'
                   /\ started'[m] = started[m]
                   /\ task'[m] = "running" => task[m] = "running"]_vars

\* the service is in its second activation: the user task of the first one
\* had completed before the status returned to Shutdown
C37_SecondUserTask ==
    \E m \in Managers :
        /\ ControllerAlive /\ started[m] = 2 /\ task[m] = "running"
        /\ status[m] = "Starting" /\ watcher[m] = "spawned"

====
